---- MODULE Spec2Model ----
(***************************************************************************)
(* Verification model of curia-irc-client: the IRC user provisioning       *)
(* endpoint and its Soju database helper (unnamed/part_003, and the        *)
(* earlier draft in unnamed/part_002), the Soju HTTP auth callback         *)
(* (docs/identity-bridge-implementation-plan.md) and the iframe            *)
(* integration script (public/iframe-integration.js).                      *)
(*                                                                         *)
(* Strings are sequences of one-character strings, so that the string      *)
(* operations of the code (replace, toLowerCase, slice, includes) are      *)
(* computed and not assumed.                                               *)
(***************************************************************************)
EXTENDS Integers, Sequences, FiniteSets, TLC

VARIABLES
    users,      \* rows of the Soju "User" table
    networks,   \* rows of the Soju "Network" table
    nextId,     \* the SERIAL sequence behind "User".id
    req,        \* the provisioning requests in flight, one record per slot
    calls,      \* provisioning calls started so far
    lastCallOf, \* history: per caller, the latest call started
    issued,     \* history: the (caller, username, password, call) of every 200 response
    created,    \* history: the (caller, username) of every INSERT INTO "User"
    lastWrite,  \* history: per username, the call whose "User" write was applied last
    dbClient,   \* part_002: state of the module-level pg Client
    auth,       \* the last answer of the /api/irc-auth handler
    authCount,  \* /api/irc-auth requests answered so far (the clock of last_used_at)
    embedded,   \* iframe script: window.self !== window.top
    readyState, \* iframe script: document.readyState
    monitoring, \* iframe script: console.log is wrapped
    received,   \* iframe script: message events dispatched to the listener so far
    lastEvent,  \* history: origin and data of the latest message event
    pollers,    \* iframe script: the waitForForm intervals, in creation order
    submitTimers, \* iframe script: pending setTimeout(... connectForm.submit(), 100)
    readyTimer, \* iframe script: the pending setTimeout of the ready signal
    dom,        \* the connect form of the web client: which elements exist, their values
    submits,    \* connectForm.submit() calls so far
    console,    \* what reached the browser console: (level, text) pairs
    outbox,     \* window.parent.postMessage calls, in order
    appLogs,    \* console.log calls of the web client so far
    urlIn,      \* the input handed to a URL builder
    urlOut,     \* the builder that ran and the URL it returned
    genIn,      \* a caller's name and id, and the outcomes of the two Math.random() draws
    genOut,     \* the username and the password generated from them
    pool,       \* ircPool and the Soju database behind it: whether the database answers,
                \* whether the pool holds an idle client, what each call waits for
    bridge      \* the auth bridge page: its status, where provisionAndRedirect stands,
                \* the response it got and where it navigated to

provVars == <<users, networks, nextId, req, calls, lastCallOf, issued, created, lastWrite,
              dbClient>>
authVars == <<auth, authCount>>
frameVars == <<embedded, readyState, monitoring, received, lastEvent, pollers,
               submitTimers, readyTimer, dom, submits, console, outbox, appLogs>>
urlVars == <<urlIn, urlOut>>
genVars == <<genIn, genOut>>
vars == <<users, networks, nextId, req, calls, lastCallOf, issued, created, lastWrite,
          dbClient, auth, authCount, embedded, readyState, monitoring, received,
          lastEvent, pollers, submitTimers, readyTimer, dom, submits, console, outbox,
          appLogs, urlIn, urlOut, genIn, genOut, pool, bridge>>

----------------------------------------------------------------------------
(* Bounds of the model *)

\* provisioning calls started in one behaviour
MaxCalls == 3
\* /api/irc-auth requests answered in one behaviour
MaxAuth == 1

\* the request slots: two calls can be in flight at once
Reqs == {"r1", "r2"}

----------------------------------------------------------------------------
(* Strings *)

UpperChars == <<"A","B","C","D","E","F","G","H","I","J","K","L","M",
                "N","O","P","Q","R","S","T","U","V","W","X","Y","Z">>
LowerChars == <<"a","b","c","d","e","f","g","h","i","j","k","l","m",
                "n","o","p","q","r","s","t","u","v","w","x","y","z">>
DigitChars == <<"0","1","2","3","4","5","6","7","8","9">>

Range(s) == {s[i] : i \in DOMAIN s}

\* [a-zA-Z0-9]
IsAlnum(c) == c \in Range(UpperChars) \cup Range(LowerChars) \cup Range(DigitChars)

\* String.prototype.toLowerCase on one character
LowerChar(c) ==
    IF c \in Range(UpperChars)
    THEN LowerChars[CHOOSE i \in DOMAIN UpperChars : UpperChars[i] = c]
    ELSE c

ToLowerCase(s) == [i \in DOMAIN s |-> LowerChar(s[i])]

\* name.replace(/[^a-zA-Z0-9]/g, '')
RECURSIVE StripNonAlnum(_)
StripNonAlnum(s) ==
    IF s = <<>> THEN <<>>
    ELSE IF IsAlnum(Head(s)) THEN <<Head(s)>> \o StripNonAlnum(Tail(s))
    ELSE StripNonAlnum(Tail(s))

\* s.slice(-n): the last n characters, the whole string when it is shorter
SliceLast(s, n) ==
    IF Len(s) <= n THEN s ELSE SubSeq(s, Len(s) - n + 1, Len(s))

\* s.slice(0, n)
SliceFirst(s, n) ==
    IF Len(s) <= n THEN s ELSE SubSeq(s, 1, n)

\* the "IRC username limit" of generateIrcUsername
UsernameLimit == 32
\* the number of trailing user id characters generateIrcUsername keeps
SuffixLen == 4

\* a mutant of generateIrcUsername: the whole user id as the suffix
GenerateIrcUsernameFullId(name, userId) ==
    SliceFirst(ToLowerCase(StripNonAlnum(name)) \o <<"_">> \o userId, UsernameLimit)

generateIrcUsername(name, userId) ==
    LET cleanName == ToLowerCase(StripNonAlnum(name))
        userSuffix == SliceLast(userId, SuffixLen)
    IN  SliceFirst(cleanName \o <<"_">> \o userSuffix, UsernameLimit)

----------------------------------------------------------------------------
(* Passwords *)

\* generateSecurePassword(): two Math.random() draws in base 36. The model
\* numbers the draws: call n draws password n, so two calls never draw the
\* same password.
generateSecurePassword(n) == n

\* bcrypt.hash(password, 10): a fresh salt and the digest of (salt, password)
hashIrcPassword(password, salt) ==
    [kind |-> "bcrypt", salt |-> salt, pw |-> password]

\* a mutant of verifyPassword: every password matches a bcrypt hash
VerifyPasswordAny(password, hash) == hash.kind = "bcrypt"

\* bcrypt.compare(password, hash): re-hash the password with the salt of the
\* stored hash; a stored value that is no bcrypt hash matches nothing
verifyPassword(password, hash) ==
    /\ hash.kind = "bcrypt"
    /\ hashIrcPassword(password, hash.salt) = hash

\* a password column that holds the password itself (part_002)
PlainPassword(password) == [kind |-> "plain", salt |-> 0, pw |-> password]

----------------------------------------------------------------------------
(* The callers *)

\* req.user: the JWT claims withAuth attaches, or no user
NoUser == <<>>
\* user.sub: two user ids that end in the same four characters
Subs == { <<"a","0","0","0","1">>, <<"b","0","0","0","1">> }
\* user.name: mutable profile field; <<>> is a missing (falsy) name
Names == { <<"B","o","b">>, <<"R","o","b">>, <<>> }

\* a || b on strings
OrElse(a, b) == IF a = <<>> THEN b ELSE a

----------------------------------------------------------------------------
(* The Soju database *)

NoHash == [kind |-> "none", salt |-> 0, pw |-> 0]
NetworkName == <<"c","o","m","m","o","n","g","r","o","u","n","d">>

\* SELECT id FROM "User" WHERE username = $1
SelectUser(rows, username) == {u \in rows : u.username = username}

\* a mutant of UniqueUsername: the UNIQUE constraint is missing
UniqueUsernameOff(rows, username) == TRUE

\* "User".username is UNIQUE: an INSERT of a username already there fails
UniqueUsername(rows, username) == SelectUser(rows, username) = {}

\* a mutant of UpdateUser: the password column is left as it was
UpdateUserKeepPassword(rows, id, password, nick, realname) ==
    { IF u.id = id THEN [u EXCEPT !.nick = nick, !.realname = realname] ELSE u
      : u \in rows }

\* UPDATE "User" SET password = $2, nick = $3, realname = $4 WHERE id = $1
UpdateUser(rows, id, password, nick, realname) ==
    { IF u.id = id
      THEN [u EXCEPT !.password = password, !.nick = nick, !.realname = realname]
      ELSE u
      : u \in rows }

\* INSERT INTO "User" (username, password, nick, realname, admin, enabled)
\*   VALUES ($1, $2, $3, $4, false, true) RETURNING id
InsertUser(rows, id, username, password, nick, realname) ==
    rows \cup {[id |-> id, username |-> username, password |-> password,
                nick |-> nick, realname |-> realname, lastUsed |-> 0]}

\* a mutant of UpsertNetwork: the conflict target is the name alone
UpsertNetworkByName(rows, name, user, nick, username) ==
    {n \in rows : n.name # name}
        \cup {[name |-> name, user |-> user, nick |-> nick, username |-> username]}

\* INSERT INTO "Network" ... ON CONFLICT (name, "user") DO UPDATE SET
\*   nick = EXCLUDED.nick, username = EXCLUDED.username
UpsertNetwork(rows, name, user, nick, username) ==
    {n \in rows : ~(n.name = name /\ n.user = user)}
        \cup {[name |-> name, user |-> user, nick |-> nick, username |-> username]}

\* INSERT INTO "Network" ... ON CONFLICT DO NOTHING
InsertNetworkIfAbsent(rows, name, user, nick, username) ==
    IF \E n \in rows : n.name = name /\ n.user = user
    THEN rows
    ELSE rows \cup {[name |-> name, user |-> user, nick |-> nick, username |-> username]}

\* the latest write of a username's "User" row
NoteWrite(lw, username, call) ==
    [x \in DOMAIN lw \cup {username} |-> IF x = username THEN call ELSE lw[x]]

----------------------------------------------------------------------------
(* provisionIrcUserHandler and upsertSojuUser (part_003) *)

IdleReq ==
    [pc |-> "idle", user |-> NoUser, ircUsername |-> <<>>, ircPassword |-> 0,
     hashedPassword |-> NoHash, nickname |-> <<>>, userId |-> 0,
     status |-> 0, call |-> 0, dbError |-> FALSE]

\* the handler returned: its locals are gone, the response stays
Respond(r, status) ==
    [IdleReq EXCEPT !.pc = "done", !.user = r.user, !.status = status, !.call = r.call,
                    !.ircUsername = IF status = 200 THEN r.ircUsername ELSE <<>>,
                    !.ircPassword = IF status = 200 THEN r.ircPassword ELSE 0]

\* a mutant of Fail: the failed query is sent again
FailAndRetry(r) == [r EXCEPT !.dbError = TRUE]

\* a query threw: the catch block of the handler logs the error and answers 500
Fail(r) == [Respond(r, 500) EXCEPT !.dbError = TRUE]

\* the pc values at which upsertSojuUser has a query to send
QueryPcs == {"select", "update", "insert", "network"}

\* a request slot that holds no running handler
Free(r) == req[r].pc \in {"idle", "done"}
InFlight(r) == ~Free(r)

\* a mutant of Unauthenticated: the handler never rejects a caller
UnauthenticatedNever(user) == FALSE

\* if (!user) return 401
Unauthenticated(user) == user = NoUser

\* provisionIrcUserHandler up to the first query of upsertSojuUser
Start(r, user, name, hasCommunity) ==
    /\ Free(r)
    /\ calls < MaxCalls
    /\ calls' = calls + 1
    /\ lastCallOf' = [lastCallOf EXCEPT ![user] = calls + 1]
    /\ LET call == calls + 1
           sub == IF user = NoUser THEN <<"?">> ELSE user
           ircUsername == generateIrcUsername(OrElse(name, sub), sub)
           ircPassword == generateSecurePassword(call)
           begun == [IdleReq EXCEPT !.user = user, !.call = call]
       IN  req' = [req EXCEPT ![r] =
             IF Unauthenticated(user) THEN Respond(begun, 401)
             ELSE IF ~hasCommunity THEN Respond(begun, 400)
             ELSE [begun EXCEPT !.pc = "select",
                                !.ircUsername = ircUsername,
                                !.ircPassword = ircPassword,
                                !.hashedPassword = hashIrcPassword(ircPassword, call),
                                !.nickname = OrElse(name, ircUsername)]]
    /\ UNCHANGED <<users, networks, nextId, issued, created, lastWrite, dbClient>>

\* upsertSojuUser: the SELECT that decides between UPDATE and INSERT
Select(r) ==
    /\ req[r].pc = "select"
    /\ LET found == SelectUser(users, req[r].ircUsername)
       IN  req' = [req EXCEPT ![r] =
             IF found # {}
             THEN [@ EXCEPT !.pc = "update", !.userId = (CHOOSE u \in found : TRUE).id]
             ELSE [@ EXCEPT !.pc = "insert"]]
    /\ UNCHANGED <<users, networks, nextId, calls, lastCallOf, issued, created, lastWrite, dbClient>>

\* upsertSojuUser: the UPDATE of an existing user
Update(r) ==
    /\ req[r].pc = "update"
    /\ users' = UpdateUser(users, req[r].userId, req[r].hashedPassword,
                           req[r].nickname, req[r].nickname)
    /\ lastWrite' =
         IF \E u \in users : u.id = req[r].userId
         THEN NoteWrite(lastWrite, (CHOOSE u \in users : u.id = req[r].userId).username,
                        req[r].call)
         ELSE lastWrite
    /\ req' = [req EXCEPT ![r].pc = "network"]
    /\ UNCHANGED <<networks, nextId, calls, lastCallOf, issued, created, dbClient>>

\* upsertSojuUser: the INSERT of a new user; a username taken in the meantime
\* violates the UNIQUE constraint, the query throws and the handler answers 500
Insert(r) ==
    /\ req[r].pc = "insert"
    /\ IF UniqueUsername(users, req[r].ircUsername)
       THEN /\ users' = InsertUser(users, nextId, req[r].ircUsername,
                                   req[r].hashedPassword, req[r].nickname, req[r].nickname)
            /\ nextId' = nextId + 1
            /\ created' = created \cup {[cg |-> req[r].user, username |-> req[r].ircUsername]}
            /\ lastWrite' = NoteWrite(lastWrite, req[r].ircUsername, req[r].call)
            /\ req' = [req EXCEPT ![r].pc = "network", ![r].userId = nextId]
       ELSE /\ req' = [req EXCEPT ![r] = Fail(@)]
            /\ UNCHANGED <<users, nextId, created, lastWrite>>
    /\ UNCHANGED <<networks, calls, lastCallOf, issued, dbClient>>

\* upsertSojuUser: the Network upsert, then the handler's 200 response
Network(r) ==
    /\ req[r].pc = "network"
    /\ networks' = UpsertNetwork(networks, NetworkName, req[r].userId,
                                 req[r].nickname, req[r].ircUsername)
    /\ issued' = issued \cup {[cg |-> req[r].user, username |-> req[r].ircUsername,
                               secret |-> req[r].ircPassword, call |-> req[r].call]}
    /\ req' = [req EXCEPT ![r] = Respond(@, 200)]
    /\ UNCHANGED <<users, nextId, calls, lastCallOf, created, lastWrite, dbClient>>

\* ircQuery throws: the pool hands out no client, or the query fails
QueryFails(r) ==
    /\ req[r].pc \in QueryPcs
    /\ req' = [req EXCEPT ![r] = Fail(@)]
    /\ UNCHANGED <<users, networks, nextId, calls, lastCallOf, issued, created, lastWrite,
                   dbClient>>

----------------------------------------------------------------------------
(* The Soju HTTP authentication endpoint, /api/irc-auth *)

\* a username no provisioning call derives
UnknownUsername == <<"n","o","b","o","d","y">>

\* findIrcUserByUsername(username)
FindIrcUserByUsername(rows, username) == SelectUser(rows, username)

\* a mutant of AuthAnswer: an unknown username is answered 404
AuthAnswerNotFound404(found, password) ==
    IF found = {} THEN [status |-> 404, body |-> "User not found", compared |-> FALSE]
    ELSE IF ~verifyPassword(password, (CHOOSE u \in found : TRUE).password)
         THEN [status |-> 403, body |-> "Invalid password", compared |-> TRUE]
         ELSE [status |-> 200, body |-> "success", compared |-> TRUE]

\* the handler's answer when findIrcUserByUsername returned `found`; compared
\* tells whether verifyPassword ran
AuthAnswer(found, password) ==
    IF found = {} THEN [status |-> 403, body |-> "User not found", compared |-> FALSE]
    ELSE IF ~verifyPassword(password, (CHOOSE u \in found : TRUE).password)
         THEN [status |-> 403, body |-> "Invalid password", compared |-> TRUE]
         ELSE [status |-> 200, body |-> "success", compared |-> TRUE]

\* verify(username, password): some row the lookup can return is accepted
Verify(rows, username, password) ==
    \E u \in FindIrcUserByUsername(rows, username) :
        AuthAnswer({u}, password).status = 200

\* a mutant of UpdateIrcUserLastUsed: the UPDATE lost its WHERE clause
UpdateIrcUserLastUsedAll(rows, id, now) ==
    { [u EXCEPT !.lastUsed = now] : u \in rows }

\* updateIrcUserLastUsed(ircUser.id)
UpdateIrcUserLastUsed(rows, id, now) ==
    { IF u.id = id THEN [u EXCEPT !.lastUsed = now] ELSE u : u \in rows }

\* one /api/irc-auth request of the bouncer, with HTTP Basic credentials
AuthRequest(username, password) ==
    /\ authCount < MaxAuth
    /\ authCount' = authCount + 1
    /\ LET found == FindIrcUserByUsername(users, username)
       IN  \/ /\ found = {}
              /\ auth' = [username |-> username, password |-> password] @@ AuthAnswer({}, password)
              /\ users' = users
           \/ \E u \in found :
                LET answer == AuthAnswer({u}, password)
                IN  /\ auth' = [username |-> username, password |-> password] @@ answer
                    /\ users' = IF answer.status = 200
                                THEN UpdateIrcUserLastUsed(users, u.id, authCount + 1)
                                ELSE users
    /\ UNCHANGED <<networks, nextId, req, calls, lastCallOf, issued, created, lastWrite, dbClient>>
    /\ UNCHANGED <<frameVars, urlVars, genVars, pool, bridge>>

\* the usernames and passwords the bouncer may present
AuthUsernames == {u.username : u \in users} \cup {UnknownUsername}
AuthPasswords == 0..calls

(***************************************************************************)
(* public/iframe-integration.js: the script The Lounge page loads when it  *)
(* is embedded.  Texts are sequences of words; Array.prototype.join(' ')   *)
(* is the concatenation of the arguments' words.                           *)
(***************************************************************************)

\* message events dispatched to the listener in one behaviour
MaxMsgs == 2
\* interval callbacks one poller can run before its 10 s timer clears it; the
\* code's periods give 10000 / 100 of them
PollTicks == 2
\* console.log calls of the web client in one behaviour
MaxLogs == 1

allowedOrigins ==
    { "https://curia.network", "https://www.curia.network",
      "http://localhost:3000", "http://localhost:3001" }

\* origins a message event can carry: an allowed one, a foreign one and one that
\* only starts with an allowed one
Origins ==
    { "https://curia.network", "https://evil.example",
      "https://curia.network.evil.example" }

NoData == [kind |-> "null", type |-> "", nick |-> <<>>, password |-> <<>>,
           realname |-> <<>>, theme |-> <<>>, text |-> <<>>]

DataObject(type, nick, password, realname, theme) ==
    [kind |-> "object", type |-> type, nick |-> nick, password |-> password,
     realname |-> realname, theme |-> theme, text |-> <<>>]

DataString(text) == [NoData EXCEPT !.kind = "string", !.text = text]

\* event.data values a sender can post
Payloads ==
    { DataObject("irc-login", <<"alice">>, <<"s3cr3t">>, <<"Alice">>, <<>>),
      DataObject("irc-login", <<>>, <<>>, <<>>, <<>>),
      DataObject("irc-theme", <<>>, <<>>, <<>>, <<"dark">>),
      DataObject("other", <<"alice">>, <<"s3cr3t">>, <<>>, <<"dark">>),
      DataString(<<"Joined", "channel">>),
      NoData }

\* what the web client itself writes with console.log
AppMessages ==
    { <<"Connected", "to", "irc">>, <<"Disconnected", "from", "irc">>,
      <<"Joined", "channel", "#general">>, <<"hello">>,
      <<"Joined", "channel", "Connected", "to">> }

Elements == { "nick", "password", "realname", "connect" }

\* String(x) of a logged argument, as join makes it
ToWords(data) ==
    CASE data.kind = "object" -> <<"[object Object]">>
      [] data.kind = "string" -> data.text
      [] OTHER -> <<>>

\* String.prototype.includes for a marker of two words
Includes(message, marker) ==
    \E i \in 1..(Len(message) - 1) : message[i] = marker[1] /\ message[i + 1] = marker[2]

IrcEvent(eventType, message) == [type |-> "irc-event", eventType |-> eventType, message |-> message]

\* notifyParent: posts to the parent when there is one
notifyParent(box, eventType, message) ==
    IF embedded THEN Append(box, IrcEvent(eventType, message)) ELSE box

\* the wrapper with its tests in the reverse order
LogNotifyJoinedFirst(box, message) ==
    IF ~monitoring THEN box
    ELSE IF Includes(message, <<"Joined", "channel">>) THEN notifyParent(box, "joined", message)
    ELSE IF Includes(message, <<"Disconnected", "from">>) THEN notifyParent(box, "disconnected", message)
    ELSE IF Includes(message, <<"Connected", "to">>) THEN notifyParent(box, "connected", message)
    ELSE box

\* the console.log the page sees: the wrapper of setupConnectionMonitoring once
\* installed, else the original; yields the outbox after the call
LogNotify(box, message) ==
    IF ~monitoring THEN box
    ELSE IF Includes(message, <<"Connected", "to">>) THEN notifyParent(box, "connected", message)
    ELSE IF Includes(message, <<"Disconnected", "from">>) THEN notifyParent(box, "disconnected", message)
    ELSE IF Includes(message, <<"Joined", "channel">>) THEN notifyParent(box, "joined", message)
    ELSE box

ConsoleEntry(level, text, obj) == [level |-> level, text |-> text, obj |-> obj]

EmptyDom == [present |-> {}, nick |-> <<>>, password |-> <<>>, realname |-> <<>>]

\* the windows a page can be loaded in: the top-level one, a frame of it and a
\* frame of that frame
Windows == { "top", "frame", "inner" }

WindowParent(w) == CASE w = "inner" -> "frame" [] OTHER -> "top"

WindowTop(w) == "top"

\* window.location: every window has a Location object of its own
LocationOf(w) == [window |-> w]

\* the guard of the script: it goes on unless window.self === window.top
InFrame(w) == w # WindowTop(w)

\* integration-loader.js: window.location !== window.parent.location
LoaderInjects(w) == LocationOf(w) # LocationOf(WindowParent(w))

\* the state the script leaves when it has run to its end at page load
FrameLoaded(inFrame, state) ==
    /\ embedded = inFrame
    /\ readyState = state
    /\ monitoring = (inFrame /\ state # "loading")
    /\ received = 0
    /\ lastEvent = [origin |-> "", data |-> NoData]
    /\ pollers = <<>>
    /\ submitTimers = 0
    /\ readyTimer = inFrame
    /\ dom = EmptyDom
    /\ submits = 0
    /\ console = IF inFrame
                 THEN { ConsoleEntry("log", <<"CommonGround", "IRC", "integration", "loaded">>, NoData) }
                 ELSE {}
    /\ outbox = <<>>
    /\ appLogs = 0

\* the origin test of the listener
OriginAllowedAny(origin) == TRUE

OriginAllowed(origin) == origin \in allowedOrigins

NewPoller(data) == [data |-> data, active |-> TRUE, ticks |-> 0, timer |-> TRUE]

\* the message listener, with handleIrcLogin and handleThemeChange
Message(origin, data) ==
    /\ embedded
    /\ received < MaxMsgs
    /\ received' = received + 1
    /\ lastEvent' = [origin |-> origin, data |-> data]
    /\ IF ~OriginAllowed(origin)
       THEN /\ console' = console \cup
                  { ConsoleEntry("warn", <<"Ignored", "message", "from", "unauthorized", "origin:", origin>>, NoData) }
            /\ UNCHANGED <<pollers, outbox>>
       ELSE LET received1 == <<"Received", "message", "from", "parent:">> \o ToWords(data)
                box1 == LogNotify(outbox, received1)
                entry1 == ConsoleEntry("log", received1, data)
            IN  IF data.kind = "object" /\ data.type = "irc-login"
                THEN LET attempt == <<"Attempting", "IRC", "login", "for", "user:">> \o data.nick
                     IN  /\ console' = console \cup { entry1, ConsoleEntry("log", attempt, NoData) }
                         /\ outbox' = LogNotify(box1, attempt)
                         /\ pollers' = Append(pollers, NewPoller(data))
                ELSE IF data.kind = "object" /\ data.type = "irc-theme" /\ data.theme # <<>>
                THEN LET applying == <<"Applying", "theme:">> \o data.theme
                     IN  /\ console' = console \cup { entry1, ConsoleEntry("log", applying, NoData) }
                         /\ outbox' = LogNotify(box1, applying)
                         /\ UNCHANGED pollers
                ELSE /\ console' = console \cup { entry1 }
                     /\ outbox' = box1
                     /\ UNCHANGED pollers
    /\ UNCHANGED <<embedded, readyState, monitoring, submitTimers, readyTimer, dom, submits, appLogs>>

\* the test of the interval callback: nickInput && passwordInput && connectForm
FormReadyNoForm == { "nick", "password" } \subseteq dom.present

FormReady == { "nick", "password", "connect" } \subseteq dom.present

\* the fill without its tests of the message's fields
FillAlways(data) ==
    [dom EXCEPT !.nick = data.nick,
                !.password = data.password,
                !.realname = IF "realname" \in dom.present THEN data.realname ELSE @]

\* the form after the poller of data has filled it
Fill(data) ==
    [dom EXCEPT !.nick = IF data.nick # <<>> THEN data.nick ELSE @,
                !.password = IF data.password # <<>> THEN data.password ELSE @,
                !.realname = IF data.realname # <<>> /\ "realname" \in dom.present
                             THEN data.realname ELSE @]

\* one callback of the waitForForm interval
PollTick(p) ==
    /\ p \in 1..Len(pollers)
    /\ pollers[p].active
    /\ pollers[p].ticks < PollTicks
    /\ IF FormReady
       THEN /\ pollers' = [pollers EXCEPT ![p].active = FALSE, ![p].ticks = @ + 1]
            /\ dom' = Fill(pollers[p].data)
            /\ submitTimers' = submitTimers + 1
       ELSE /\ pollers' = [pollers EXCEPT ![p].ticks = @ + 1]
            /\ UNCHANGED <<dom, submitTimers>>
    /\ UNCHANGED <<embedded, readyState, monitoring, received, lastEvent, readyTimer,
                   submits, console, outbox, appLogs>>

\* the 10 s timer without its clearInterval
PollTimeoutNoClear(p) ==
    /\ p \in 1..Len(pollers)
    /\ pollers[p].timer
    /\ pollers[p].ticks >= 1
    /\ pollers' = [pollers EXCEPT ![p].timer = FALSE]
    /\ UNCHANGED <<embedded, readyState, monitoring, received, lastEvent, submitTimers,
                   readyTimer, dom, submits, console, outbox, appLogs>>

\* the 10 s timer of handleIrcLogin; the interval, set first and due first, has
\* run before it unless it was already cleared
PollTimeout(p) ==
    /\ p \in 1..Len(pollers)
    /\ pollers[p].timer
    /\ pollers[p].ticks >= 1
    /\ pollers' = [pollers EXCEPT ![p].active = FALSE, ![p].timer = FALSE]
    /\ UNCHANGED <<embedded, readyState, monitoring, received, lastEvent, submitTimers,
                   readyTimer, dom, submits, console, outbox, appLogs>>

\* the 100 ms timer set after a fill
SubmitTimer ==
    /\ submitTimers > 0
    /\ submitTimers' = submitTimers - 1
    /\ LET submitting == <<"Submitting", "IRC", "connection", "form">>
       IN  /\ console' = console \cup { ConsoleEntry("log", submitting, NoData) }
           /\ outbox' = LogNotify(outbox, submitting)
    /\ submits' = submits + 1
    /\ UNCHANGED <<embedded, readyState, monitoring, received, lastEvent, pollers,
                   readyTimer, dom, appLogs>>

\* the DOMContentLoaded event with the listener registered on every page
DomContentLoadedAlways ==
    /\ readyState = "loading"
    /\ readyState' = "interactive"
    /\ monitoring' = TRUE
    /\ UNCHANGED <<embedded, received, lastEvent, pollers, submitTimers, readyTimer, dom,
                   submits, console, outbox, appLogs>>

\* the DOMContentLoaded listener
DomContentLoaded ==
    /\ readyState = "loading"
    /\ readyState' = "interactive"
    /\ monitoring' = embedded
    /\ UNCHANGED <<embedded, received, lastEvent, pollers, submitTimers, readyTimer, dom,
                   submits, console, outbox, appLogs>>

\* the 1000 ms timer of the ready signal
ReadyTimer ==
    /\ readyTimer
    /\ readyTimer' = FALSE
    /\ outbox' = notifyParent(outbox, "ready", <<>>)
    /\ UNCHANGED <<embedded, readyState, monitoring, received, lastEvent, pollers,
                   submitTimers, dom, submits, console, appLogs>>

\* a wrapper that leaves out the original console.log for a text it reported
AppLogSwallowed(message) ==
    /\ appLogs < MaxLogs
    /\ appLogs' = appLogs + 1
    /\ console' = IF LogNotify(outbox, message) # outbox THEN console
                  ELSE console \cup { ConsoleEntry("log", message, NoData) }
    /\ outbox' = LogNotify(outbox, message)
    /\ UNCHANGED <<embedded, readyState, monitoring, received, lastEvent, pollers,
                   submitTimers, readyTimer, dom, submits>>

\* the web client calls console.log
AppLog(message) ==
    /\ appLogs < MaxLogs
    /\ appLogs' = appLogs + 1
    /\ console' = console \cup { ConsoleEntry("log", message, NoData) }
    /\ outbox' = LogNotify(outbox, message)
    /\ UNCHANGED <<embedded, readyState, monitoring, received, lastEvent, pollers,
                   submitTimers, readyTimer, dom, submits>>

\* the web client renders an element of its connect form
Render(el) ==
    /\ el \notin dom.present
    /\ dom' = [dom EXCEPT !.present = @ \cup { el }]
    /\ UNCHANGED <<embedded, readyState, monitoring, received, lastEvent, pollers,
                   submitTimers, readyTimer, submits, console, outbox, appLogs>>

(***************************************************************************)
(* The Lounge URL builders: buildChatUrl of the implementation plan, which *)
(* goes through URL and URLSearchParams, and buildLoungeUrl of the auth    *)
(* bridge page (part_002), a template string.                              *)
(***************************************************************************)

\* channels in one builder input
MaxChannels == 2

\* the application/x-www-form-urlencoded byte serializer leaves these as they are
IsFormSafe(c) == IsAlnum(c) \/ c \in {"*", "-", ".", "_"}

\* the percent codes of the other characters of the model's alphabet
PercentCodes ==
    ("#" :> <<"2","3">>) @@ ("," :> <<"2","C">>) @@ ("&" :> <<"2","6">>) @@
    ("=" :> <<"3","D">>) @@ ("/" :> <<"2","F">>) @@ ("%" :> <<"2","5">>) @@
    ("+" :> <<"2","B">>) @@ ("?" :> <<"3","F">>) @@ (":" :> <<"3","A">>)

FormEncodeChar(c) ==
    IF IsFormSafe(c) THEN <<c>>
    ELSE IF c = " " THEN <<"+">>
    ELSE <<"%">> \o PercentCodes[c]

\* the serializer of URLSearchParams on one name or value
RECURSIVE FormEncode(_)
FormEncode(s) ==
    IF s = <<>> THEN <<>> ELSE FormEncodeChar(Head(s)) \o FormEncode(Tail(s))

\* the parser of URLSearchParams on one name or value: '+' is a space and
\* %XX the character of that code; a '%' that starts no code stays
RECURSIVE FormDecode(_)
FormDecode(s) ==
    IF s = <<>> THEN <<>>
    ELSE IF Head(s) = "+" THEN <<" ">> \o FormDecode(Tail(s))
    ELSE IF /\ Head(s) = "%"
            /\ Len(s) >= 3
            /\ \E c \in DOMAIN PercentCodes : PercentCodes[c] = <<s[2], s[3]>>
         THEN <<CHOOSE c \in DOMAIN PercentCodes : PercentCodes[c] = <<s[2], s[3]>>>>
                  \o FormDecode(SubSeq(s, 4, Len(s)))
    ELSE <<Head(s)>> \o FormDecode(Tail(s))

\* the position of the first c in s, or 0
IndexOf(s, c) ==
    IF \E i \in DOMAIN s : s[i] = c
    THEN CHOOSE i \in DOMAIN s : s[i] = c /\ \A j \in 1..(i - 1) : s[j] # c
    ELSE 0

\* s.split(c)
RECURSIVE Split(_, _)
Split(s, c) ==
    LET i == IndexOf(s, c)
    IN  IF i = 0 THEN <<s>>
        ELSE <<SubSeq(s, 1, i - 1)>> \o Split(SubSeq(s, i + 1, Len(s)), c)

\* Array.prototype.join
RECURSIVE Join(_, _)
Join(parts, sep) ==
    IF parts = <<>> THEN <<>>
    ELSE IF Len(parts) = 1 THEN parts[1]
    ELSE parts[1] \o sep \o Join(Tail(parts), sep)

Param(name, value) == [name |-> name, value |-> value]

\* URLSearchParams.prototype.toString
SearchParamsToString(params) ==
    Join([i \in DOMAIN params |->
            FormEncode(params[i].name) \o <<"=">> \o FormEncode(params[i].value)], <<"&">>)

\* the query of a URL: what follows the first '?', up to a '#'
QueryOf(url) ==
    LET q == IndexOf(url, "?")
        rest == IF q = 0 THEN <<>> ELSE SubSeq(url, q + 1, Len(url))
        h == IndexOf(rest, "#")
    IN  IF h = 0 THEN rest ELSE SubSeq(rest, 1, h - 1)

\* new URLSearchParams(query): the pairs a reader of the URL gets
ParseQuery(query) ==
    LET fields == SelectSeq(Split(query, "&"), LAMBDA f : f # <<>>)
    IN  [i \in DOMAIN fields |->
            LET e == IndexOf(fields[i], "=")
            IN  IF e = 0 THEN Param(FormDecode(fields[i]), <<>>)
                ELSE Param(FormDecode(SubSeq(fields[i], 1, e - 1)),
                           FormDecode(SubSeq(fields[i], e + 1, Len(fields[i]))))]

HasParam(params, name) == \E i \in DOMAIN params : params[i].name = name

\* URLSearchParams.prototype.get; a missing parameter reads as <<"null">>
GetParam(params, name) ==
    IF HasParam(params, name)
    THEN params[CHOOSE i \in DOMAIN params :
                    params[i].name = name /\ \A j \in 1..(i - 1) : params[j].name # name].value
    ELSE <<"null">>

\* process.env.NEXT_PUBLIC_CHAT_BASE_URL after new URL(): origin and path "/"
ChatBaseUrl == <<"h","t","t","p",":","/","/","h","/">>
\* the baseUrl of buildLoungeUrl
LoungeBaseUrl == <<"h","t","t","p",":","/","/","h">>

\* a mutant of buildChatUrl: the password is left out of the URL
BuildChatUrlNoPassword(params) ==
    ChatBaseUrl \o <<"?">> \o SearchParamsToString(
        << Param(<<"a","u","t","o","l","o","g","i","n">>, <<>>), Param(<<"u","s","e","r">>, params.username),
           Param(<<"a","u","t","o","c","o","n","n","e","c","t">>, <<>>) >>)

buildChatUrl(params) ==
    ChatBaseUrl \o <<"?">> \o SearchParamsToString(
        << Param(<<"a","u","t","o","l","o","g","i","n">>, <<>>),
           Param(<<"u","s","e","r">>, params.username),
           Param(<<"a","l","-","p","a","s","s","w","o","r","d">>, params.password),
           Param(<<"a","u","t","o","c","o","n","n","e","c","t">>, <<>>),
           Param(<<"n","i","c","k">>, params.nick),
           Param(<<"u","s","e","r","n","a","m","e">>, params.username),
           Param(<<"r","e","a","l","n","a","m","e">>, params.realname) >>
        \o (IF Len(params.channels) > 0
            THEN << Param(<<"j","o","i","n">>, Join(params.channels, <<",">>)) >>
            ELSE << >>)
        \o << Param(<<"n","o","f","o","c","u","s">>, <<>>), Param(<<"l","o","c","k","c","h","a","n","n","e","l">>, <<>>) >>)

\* communityId.toLowerCase().replace(/[^a-z0-9]/g, '-')
ChannelNameOf(communityId) ==
    LET lower == ToLowerCase(communityId)
    IN  [i \in DOMAIN lower |->
            IF lower[i] \in Range(LowerChars) \cup Range(DigitChars) THEN lower[i] ELSE "-"]

buildLoungeUrl(ircUsername, ircPassword, communityId) ==
    LoungeBaseUrl \o <<"?","a","u","t","o","l","o","g","i","n","&","u","s","e","r","=">> \o ircUsername \o <<"&","a","l","-","p","a","s","s","w","o","r","d","=">> \o ircPassword
        \o <<"&","a","u","t","o","c","o","n","n","e","c","t","&","n","i","c","k","=">> \o ircUsername \o <<"&","u","s","e","r","n","a","m","e","=">> \o ircUsername
        \o <<"/","c","o","m","m","o","n","g","r","o","u","n","d","&","r","e","a","l","n","a","m","e","=">> \o ircUsername \o <<"&","j","o","i","n","=","%","2","3">>
        \o ChannelNameOf(communityId) \o <<"&","l","o","c","k","c","h","a","n","n","e","l","&","n","o","f","o","c","u","s">>

\* the inputs of the builders
UrlUsernames == { <<"a","l","i","c","e","_","4","2">> }
UrlPasswords == { <<"s","3","c","r","3","t">>, <<"a","&","b">>, <<"a"," ","b">>, <<"a","+","b">> }
UrlNicks == { <<"a","l","i","c","e">> }
UrlRealnames == { <<"A","l","i","c","e"," ","A",".">>, <<"A","#","1">> }
UrlChannelNames == { <<"g","e","n","e","r","a","l">>, <<"D","e","v">>, <<"c","-","1">> }

RECURSIVE SeqsUpTo(_, _)
SeqsUpTo(S, n) ==
    IF n = 0 THEN { <<>> }
    ELSE SeqsUpTo(S, n - 1) \cup { Append(s, x) : s \in { t \in SeqsUpTo(S, n - 1) : Len(t) = n - 1 }, x \in S }

UrlInputs ==
    [ username : UrlUsernames, password : UrlPasswords, nick : UrlNicks,
      realname : UrlRealnames, channels : SeqsUpTo(UrlChannelNames, MaxChannels) ]

NoUrl == [builder |-> "none", url |-> <<>>]

\* no builder input yet
UrlIdle ==
    /\ urlIn = [username |-> <<>>, password |-> <<>>, nick |-> <<>>, realname |-> <<>>,
                channels |-> <<>>]
    /\ urlOut = NoUrl

\* ChatModal builds the URL from the provisioning result
BuildChatUrl ==
    /\ urlOut.builder = "none"
    /\ urlOut' = [builder |-> "buildChatUrl", url |-> buildChatUrl(urlIn)]
    /\ UNCHANGED urlIn

\* the auth bridge page builds the URL for the one community it was opened for
BuildLoungeUrl ==
    /\ urlOut.builder = "none"
    /\ Len(urlIn.channels) = 1
    /\ urlOut' = [builder |-> "buildLoungeUrl",
                  url |-> buildLoungeUrl(urlIn.username, urlIn.password, urlIn.channels[1])]
    /\ UNCHANGED urlIn

(***************************************************************************)
(* The credentials as text: generateIrcUsername on display names and user  *)
(* ids, and generateSecurePassword on the outcomes of its two              *)
(* Math.random() draws.  A draw is written as the base-36 digits of its    *)
(* fraction; the draw 0 has none.                                          *)
(***************************************************************************)

\* Math.random().toString(36)
RandomToString36(draw) == IF draw = <<>> THEN <<"0">> ELSE <<"0", ".">> \o draw

\* s.slice(n)
SliceFrom(s, n) == IF Len(s) <= n THEN <<>> ELSE SubSeq(s, n + 1, Len(s))

\* a mutant of SecurePasswordText: one draw only
SecurePasswordTextOneDraw(draw1, draw2) == SliceFrom(RandomToString36(draw1), 2)

\* generateSecurePassword() when Math.random() returns draw1, then draw2
SecurePasswordText(draw1, draw2) ==
    SliceFrom(RandomToString36(draw1), 2) \o SliceFrom(RandomToString36(draw2), 2)

\* outcomes of Math.random(): 0, 0.5, and two draws of full length
RandomDraws == { <<>>, <<"i">>, <<"4","f","z","z","z","x","j","y","l","r","x">>, <<"k","2","n","9","c","0","q","d","8","h","e">> }

\* user.name of the callers: short, with characters the cleaning drops, and
\* long enough to reach the username limit
DisplayNames == { <<"B","o","b">>, <<"M","a","r","y","-","A","n","n"," ","O","'","N","e","i","l">>, <<"M","a","x","i","m","i","l","i","a","n","e"," ","A","l","e","x","a","n","d","r","a"," ","F","r","e","i","f","r","a","u"," ","v","o","n"," ","H","o","h","e","n","b","e","r","g">> }
\* user.sub of the callers
UserIds == { <<"a","0","0","0","1">>, <<"u","1">>, <<"8","6","3","2","6","0","6","8","-","5","e","1","f","-","4","1","b","4","-","b","a","3","9","-","2","1","3","4","0","2","b","f","3","6","0","1">> }

NoCredentials == [done |-> FALSE, username |-> <<>>, password |-> <<>>]

\* no credentials are being generated
GenIdle ==
    /\ genIn = [name |-> <<>>, sub |-> <<>>, draw1 |-> <<>>, draw2 |-> <<>>]
    /\ genOut = NoCredentials

\* the two generator calls of provisionIrcUserHandler
Generate ==
    /\ ~genOut.done
    /\ genOut' = [done |-> TRUE,
                  username |-> generateIrcUsername(OrElse(genIn.name, genIn.sub), genIn.sub),
                  password |-> SecurePasswordText(genIn.draw1, genIn.draw2)]
    /\ UNCHANGED genIn

(***************************************************************************)
(* The auth bridge page, IrcAuthBridge (part_002): provisionAndRedirect    *)
(* runs once per page load, and the Retry button of the error display      *)
(* reloads the page.                                                       *)
(***************************************************************************)

\* reloads of the page in one behaviour
MaxReloads == 2

\* searchParams.community: absent from the page's URL, or a community id
NoCommunity == [defined |-> FALSE, id |-> <<>>]

BridgeCommunities ==
    { NoCommunity } \cup { [defined |-> TRUE, id |-> c] : c \in UrlChannelNames }

\* how the fetch of /api/irc-user-provision settles: rejected, or a response
FetchOutcomes ==
    { [rejected |-> TRUE, status |-> 0],
      [rejected |-> FALSE, status |-> 200],
      [rejected |-> FALSE, status |-> 401],
      [rejected |-> FALSE, status |-> 500] }

NoOutcome == [rejected |-> FALSE, status |-> 0]

\* Response.ok
ResponseOk(outcome) == ~outcome.rejected /\ outcome.status \in 200..299

NoHref == <<>>

NoBody == [ircUsername |-> <<>>, ircPassword |-> <<>>]

\* the page as useState leaves it at its first render
BridgeLoaded(community, loads) ==
    [loads |-> loads, status |-> "loading", pc |-> "mounted", community |-> community,
     outcome |-> NoOutcome, body |-> NoBody, href |-> NoHref]

BridgeIdle == bridge = BridgeLoaded(NoCommunity, 0)

\* the catch block of provisionAndRedirect
BridgeCatch(b) == [b EXCEPT !.status = "error", !.pc = "done"]

\* useEffect: provisionAndRedirect up to its await fetch(...)
ProvisionAndRedirect ==
    /\ bridge.pc = "mounted"
    /\ bridge' = [bridge EXCEPT !.pc = "fetching"]

\* the fetch settles and the function goes past the test of response.ok
FetchSettlesNoOkTest(outcome) ==
    /\ bridge.pc = "fetching"
    /\ bridge' = IF outcome.rejected
                 THEN BridgeCatch([bridge EXCEPT !.outcome = outcome])
                 ELSE [bridge EXCEPT !.outcome = outcome, !.pc = "parsing"]

\* the fetch settles: a rejection and a response that is not ok go to the
\* catch block, an ok response to await response.json()
FetchSettles(outcome) ==
    /\ bridge.pc = "fetching"
    /\ bridge' = IF outcome.rejected \/ ~ResponseOk(outcome)
                 THEN BridgeCatch([bridge EXCEPT !.outcome = outcome])
                 ELSE [bridge EXCEPT !.outcome = outcome, !.pc = "parsing"]

\* response.json() settles: a body that is not JSON goes to the catch block;
\* else the status is set, buildLoungeUrl runs, which throws on
\* communityId.toLowerCase() when there is no community, and the page
\* navigates
JsonSettles(parsed, ircUsername, ircPassword) ==
    /\ bridge.pc = "parsing"
    /\ bridge' = IF ~parsed \/ ~bridge.community.defined
                 THEN BridgeCatch(bridge)
                 ELSE [bridge EXCEPT
                         !.body = [ircUsername |-> ircUsername, ircPassword |-> ircPassword],
                         !.status = "success",
                         !.href = buildLoungeUrl(ircUsername, ircPassword, bridge.community.id),
                         !.pc = "done"]

\* onRetry of the error display: window.location.reload()
BridgeRetry ==
    /\ bridge.status = "error"
    /\ bridge.loads < MaxReloads
    /\ bridge' = BridgeLoaded(bridge.community, bridge.loads + 1)

BridgeRest == UNCHANGED <<provVars, authVars, frameVars, urlVars, genVars, pool>>

\* a new pool, a database that answers, no query on the wire
PoolInit ==
    pool = [db |-> "up", idle |-> FALSE, wire |-> [r \in Reqs |-> "none"]]

\* an empty Soju database and no request
ProvInit ==
    /\ users = {}
    /\ networks = {}
    /\ nextId = 1
    /\ req = [r \in Reqs |-> IdleReq]
    /\ calls = 0
    /\ lastCallOf = [u \in Subs \cup {NoUser} |-> 0]
    /\ issued = {}
    /\ created = {}
    /\ lastWrite = <<>>
    /\ dbClient = "new"
    /\ auth = [username |-> <<>>, password |-> 0, status |-> 0, body |-> "none",
               compared |-> FALSE]
    /\ authCount = 0

Init == ProvInit /\ FrameLoaded(FALSE, "complete") /\ UrlIdle /\ GenIdle /\ PoolInit /\ BridgeIdle

Next ==
    \/ \E r \in Reqs, user \in Subs \cup {NoUser}, name \in Names, hasCommunity \in BOOLEAN :
          Start(r, user, name, hasCommunity) /\ UNCHANGED <<authVars, frameVars, urlVars, genVars, pool, bridge>>
    \/ \E r \in Reqs : Select(r) /\ UNCHANGED <<authVars, frameVars, urlVars, genVars, pool, bridge>>
    \/ \E r \in Reqs : Update(r) /\ UNCHANGED <<authVars, frameVars, urlVars, genVars, pool, bridge>>
    \/ \E r \in Reqs : Insert(r) /\ UNCHANGED <<authVars, frameVars, urlVars, genVars, pool, bridge>>
    \/ \E r \in Reqs : Network(r) /\ UNCHANGED <<authVars, frameVars, urlVars, genVars, pool, bridge>>

\* concurrent provisioning calls against one Soju database
Spec == Init /\ [][Next]_vars

\* the display name of the callers where queries can fail
FaultNames == { <<"B","o","b">> }

NextFault ==
    \/ \E r \in Reqs, user \in Subs, name \in FaultNames :
          Start(r, user, name, TRUE) /\ UNCHANGED <<authVars, frameVars, urlVars, genVars, pool, bridge>>
    \/ \E r \in Reqs : Select(r) /\ UNCHANGED <<authVars, frameVars, urlVars, genVars, pool, bridge>>
    \/ \E r \in Reqs : Update(r) /\ UNCHANGED <<authVars, frameVars, urlVars, genVars, pool, bridge>>
    \/ \E r \in Reqs : Insert(r) /\ UNCHANGED <<authVars, frameVars, urlVars, genVars, pool, bridge>>
    \/ \E r \in Reqs : Network(r) /\ UNCHANGED <<authVars, frameVars, urlVars, genVars, pool, bridge>>
    \/ \E r \in Reqs : QueryFails(r) /\ UNCHANGED <<authVars, frameVars, urlVars, genVars, pool, bridge>>

\* concurrent provisioning calls against a Soju database whose queries can fail
SpecFault == Init /\ [][NextFault]_vars

\* no provisioning call is in flight
Quiet == \A r \in Reqs : Free(r)

\* the slot the sequential caller uses
SeqReqs == {"r1"}

NextSeq ==
    \/ \E r \in SeqReqs, user \in Subs \cup {NoUser}, name \in Names, hasCommunity \in BOOLEAN :
          Quiet /\ Start(r, user, name, hasCommunity) /\ UNCHANGED <<authVars, frameVars, urlVars, genVars, pool, bridge>>
    \/ \E r \in SeqReqs : Select(r) /\ UNCHANGED <<authVars, frameVars, urlVars, genVars, pool, bridge>>
    \/ \E r \in SeqReqs : Update(r) /\ UNCHANGED <<authVars, frameVars, urlVars, genVars, pool, bridge>>
    \/ \E r \in SeqReqs : Insert(r) /\ UNCHANGED <<authVars, frameVars, urlVars, genVars, pool, bridge>>
    \/ \E r \in SeqReqs : Network(r) /\ UNCHANGED <<authVars, frameVars, urlVars, genVars, pool, bridge>>
    \/ \E username \in AuthUsernames, password \in AuthPasswords :
          Quiet /\ AuthRequest(username, password)

\* provisioning calls one after the other, and the bouncer's auth requests
SpecSeq == Init /\ [][NextSeq]_vars

\* ircQuery against a database that answers: pool.connect(), client.query()
\* and client.release() go through, and the pool keeps the client as idle
Answered(r) ==
    /\ pool.db = "up"
    /\ pool.wire[r] = "none"
    /\ pool' = [pool EXCEPT !.idle = TRUE]

\* the database stops answering, for good
GoSilent ==
    /\ pool.db = "up"
    /\ pool' = [pool EXCEPT !.db = "silent"]
    /\ UNCHANGED provVars

\* idleTimeoutMillis: the pool closes a client that was idle for 30 s
IdleTimeout ==
    /\ pool.idle
    /\ pool' = [pool EXCEPT !.idle = FALSE]
    /\ UNCHANGED provVars

\* ircQuery against a silent database: pool.connect() hands out the idle
\* client, if there is one, and the query is sent on it; else it opens a
\* connection and waits for it
SendQuery(r) ==
    /\ pool.db = "silent"
    /\ req[r].pc \in QueryPcs
    /\ pool.wire[r] = "none"
    /\ pool' = IF pool.idle
               THEN [pool EXCEPT !.idle = FALSE, !.wire[r] = "query"]
               ELSE [pool EXCEPT !.wire[r] = "connect"]
    /\ UNCHANGED provVars

\* connectionTimeoutMillis: pool.connect() rejects after 2 s without a
\* connection, ircQuery throws and the handler answers 500
ConnectTimeout(r) ==
    /\ pool.wire[r] = "connect"
    /\ pool' = [pool EXCEPT !.wire[r] = "none"]
    /\ req' = [req EXCEPT ![r] = Fail(@)]
    /\ UNCHANGED <<users, networks, nextId, calls, lastCallOf, issued, created, lastWrite,
                   dbClient>>

\* the other parts of the program do not move while a call runs
HangRest == UNCHANGED <<authVars, frameVars, urlVars, genVars, bridge>>

NextHang ==
    \/ \E r \in SeqReqs, user \in Subs, name \in FaultNames :
          Quiet /\ Start(r, user, name, TRUE) /\ UNCHANGED <<authVars, frameVars, urlVars, genVars, pool, bridge>>
    \/ \E r \in SeqReqs : Select(r) /\ Answered(r) /\ HangRest
    \/ \E r \in SeqReqs : Update(r) /\ Answered(r) /\ HangRest
    \/ \E r \in SeqReqs : Insert(r) /\ Answered(r) /\ HangRest
    \/ \E r \in SeqReqs : Network(r) /\ Answered(r) /\ HangRest
    \/ GoSilent /\ HangRest
    \/ IdleTimeout /\ HangRest
    \/ \E r \in SeqReqs : SendQuery(r) /\ HangRest
    \/ \E r \in SeqReqs : ConnectTimeout(r) /\ HangRest

\* what the code and its runtime do whenever they can: the handler goes on
\* when a query is answered, sends its next query, and the pool's connection
\* timer fires
HangFairness ==
    \A r \in SeqReqs :
        /\ WF_vars(Select(r) /\ Answered(r) /\ HangRest)
        /\ WF_vars(Update(r) /\ Answered(r) /\ HangRest)
        /\ WF_vars(Insert(r) /\ Answered(r) /\ HangRest)
        /\ WF_vars(Network(r) /\ Answered(r) /\ HangRest)
        /\ WF_vars(SendQuery(r) /\ HangRest)
        /\ WF_vars(ConnectTimeout(r) /\ HangRest)

\* provisioning calls, one after the other, against a database that can stop
\* answering
SpecHang == Init /\ [][NextHang]_vars /\ HangFairness

----------------------------------------------------------------------------
(* The earlier draft of the endpoint and of upsertSojuUser (part_002) *)

\* UPDATE "User" SET password = $2, nick = $3, realname = $4 WHERE username = $1
UpdateUserByName(rows, username, password, nick, realname) ==
    { IF u.username = username
      THEN [u EXCEPT !.password = password, !.nick = nick, !.realname = realname]
      ELSE u
      : u \in rows }

\* the password value the draft hands to upsertSojuUser and on to the queries
DraftStoredPassword(ircPassword) == PlainPassword(ircPassword)

\* POST up to ircDb.connect(): the session check, then the credentials. A
\* session without a name makes generateIrcUsername throw (name.replace on
\* undefined), which the handler's catch turns into a 500.
DraftStart(r, user, name) ==
    /\ Free(r)
    /\ calls < MaxCalls
    /\ calls' = calls + 1
    /\ lastCallOf' = [lastCallOf EXCEPT ![user] = calls + 1]
    /\ LET call == calls + 1
           begun == [IdleReq EXCEPT !.user = user, !.call = call]
       IN  req' = [req EXCEPT ![r] =
             IF Unauthenticated(user) THEN Respond(begun, 401)
             ELSE IF name = <<>> THEN Respond(begun, 500)
             ELSE [begun EXCEPT !.pc = "d_connect",
                                !.ircUsername = generateIrcUsername(name, user),
                                !.ircPassword = generateSecurePassword(call),
                                !.nickname = name]]
    /\ UNCHANGED <<users, networks, nextId, issued, created, lastWrite, dbClient>>

\* await ircDb.connect(), outside the try: the one module-level Client is
\* connected by its first user; what connect() does on a Client that was
\* connected before is the pg library's choice, so both outcomes are kept
DraftConnect(r) ==
    /\ req[r].pc = "d_connect"
    /\ \/ /\ dbClient' = "connected"
          /\ req' = [req EXCEPT ![r].pc = "d_select"]
       \/ /\ dbClient # "new"
          /\ dbClient' = dbClient
          /\ req' = [req EXCEPT ![r] = Respond(@, 500)]
    /\ UNCHANGED <<users, networks, nextId, calls, lastCallOf, issued, created, lastWrite>>

\* a query on the Client after another call's finally block ended it throws;
\* this call's own finally block runs and the handler answers 500
DraftQueryFails(r) ==
    /\ req[r].pc \in {"d_select", "d_update", "d_insert", "d_network"}
    /\ dbClient = "ended"
    /\ req' = [req EXCEPT ![r] = Respond(@, 500)]
    /\ UNCHANGED <<users, networks, nextId, calls, lastCallOf, issued, created, lastWrite,
                   dbClient>>

DraftSelect(r) ==
    /\ req[r].pc = "d_select"
    /\ dbClient = "connected"
    /\ req' = [req EXCEPT ![r].pc =
                IF SelectUser(users, req[r].ircUsername) # {} THEN "d_update" ELSE "d_insert"]
    /\ UNCHANGED <<users, networks, nextId, calls, lastCallOf, issued, created, lastWrite,
                   dbClient>>

\* the UPDATE branch: it returns without touching "Network"; finally ends the
\* Client and POST answers with the credentials
DraftUpdate(r) ==
    /\ req[r].pc = "d_update"
    /\ dbClient = "connected"
    /\ users' = UpdateUserByName(users, req[r].ircUsername,
                                 DraftStoredPassword(req[r].ircPassword),
                                 req[r].nickname, req[r].nickname)
    /\ lastWrite' = IF SelectUser(users, req[r].ircUsername) # {}
                    THEN NoteWrite(lastWrite, req[r].ircUsername, req[r].call)
                    ELSE lastWrite
    /\ dbClient' = "ended"
    /\ issued' = issued \cup {[cg |-> req[r].user, username |-> req[r].ircUsername,
                               secret |-> req[r].ircPassword, call |-> req[r].call]}
    /\ req' = [req EXCEPT ![r] = Respond(@, 200)]
    /\ UNCHANGED <<networks, nextId, calls, lastCallOf, created>>

\* the INSERT branch: the new "User" row
DraftInsert(r) ==
    /\ req[r].pc = "d_insert"
    /\ dbClient = "connected"
    /\ IF UniqueUsername(users, req[r].ircUsername)
       THEN /\ users' = InsertUser(users, nextId, req[r].ircUsername,
                                   DraftStoredPassword(req[r].ircPassword),
                                   req[r].nickname, req[r].nickname)
            /\ nextId' = nextId + 1
            /\ created' = created \cup {[cg |-> req[r].user, username |-> req[r].ircUsername]}
            /\ lastWrite' = NoteWrite(lastWrite, req[r].ircUsername, req[r].call)
            /\ req' = [req EXCEPT ![r].pc = "d_network", ![r].userId = nextId]
            /\ dbClient' = dbClient
       ELSE /\ req' = [req EXCEPT ![r] = Respond(@, 500)]
            /\ dbClient' = "ended"
            /\ UNCHANGED <<users, nextId, created, lastWrite>>
    /\ UNCHANGED <<networks, calls, lastCallOf, issued>>

\* the INSERT branch: the "Network" row, then finally and the 200 response
DraftNetwork(r) ==
    /\ req[r].pc = "d_network"
    /\ dbClient = "connected"
    /\ networks' = InsertNetworkIfAbsent(networks, NetworkName, req[r].userId,
                                         req[r].nickname, req[r].ircUsername)
    /\ dbClient' = "ended"
    /\ issued' = issued \cup {[cg |-> req[r].user, username |-> req[r].ircUsername,
                               secret |-> req[r].ircPassword, call |-> req[r].call]}
    /\ req' = [req EXCEPT ![r] = Respond(@, 200)]
    /\ UNCHANGED <<users, nextId, calls, lastCallOf, created, lastWrite>>

NextDraft ==
    \/ \E r \in Reqs, user \in Subs \cup {NoUser}, name \in Names :
          DraftStart(r, user, name) /\ UNCHANGED <<authVars, frameVars, urlVars, genVars, pool, bridge>>
    \/ \E r \in Reqs : DraftConnect(r) /\ UNCHANGED <<authVars, frameVars, urlVars, genVars, pool, bridge>>
    \/ \E r \in Reqs : DraftQueryFails(r) /\ UNCHANGED <<authVars, frameVars, urlVars, genVars, pool, bridge>>
    \/ \E r \in Reqs : DraftSelect(r) /\ UNCHANGED <<authVars, frameVars, urlVars, genVars, pool, bridge>>
    \/ \E r \in Reqs : DraftUpdate(r) /\ UNCHANGED <<authVars, frameVars, urlVars, genVars, pool, bridge>>
    \/ \E r \in Reqs : DraftInsert(r) /\ UNCHANGED <<authVars, frameVars, urlVars, genVars, pool, bridge>>
    \/ \E r \in Reqs : DraftNetwork(r) /\ UNCHANGED <<authVars, frameVars, urlVars, genVars, pool, bridge>>

\* concurrent provisioning calls of the draft
SpecDraft == Init /\ [][NextDraft]_vars

(***************************************************************************)
(* The embedded page: the script after load, top-level or framed, before   *)
(* or after the document was parsed.                                       *)
(***************************************************************************)
InitFrame ==
    /\ ProvInit
    /\ UrlIdle
    /\ GenIdle
    /\ PoolInit
    /\ BridgeIdle
    /\ \E w \in Windows : \E state \in { "loading", "complete" } :
           FrameLoaded(InFrame(w), state)

NextFrame ==
    \/ \E origin \in Origins : \E data \in Payloads :
          Message(origin, data) /\ UNCHANGED <<provVars, authVars, urlVars, genVars, pool, bridge>>
    \/ \E p \in 1..MaxMsgs : PollTick(p) /\ UNCHANGED <<provVars, authVars, urlVars, genVars, pool, bridge>>
    \/ \E p \in 1..MaxMsgs : PollTimeout(p) /\ UNCHANGED <<provVars, authVars, urlVars, genVars, pool, bridge>>
    \/ SubmitTimer /\ UNCHANGED <<provVars, authVars, urlVars, genVars, pool, bridge>>
    \/ \E el \in Elements : Render(el) /\ UNCHANGED <<provVars, authVars, urlVars, genVars, pool, bridge>>

SpecFrame == InitFrame /\ [][NextFrame]_vars

\* the other parts of the program do not move while the page runs
FrameRest == UNCHANGED <<provVars, authVars, urlVars, genVars, pool, bridge>>

(***************************************************************************)
(* The embedded page, loaded, with a parent that posts login messages and  *)
(* with its timers running.                                                *)
(***************************************************************************)
LoginPayloads == { data \in Payloads : data.type = "irc-login" }

InitLogin ==
    /\ ProvInit
    /\ UrlIdle
    /\ GenIdle
    /\ PoolInit
    /\ BridgeIdle
    /\ FrameLoaded(TRUE, "complete")

NextLogin ==
    \/ \E data \in LoginPayloads : Message("https://curia.network", data) /\ FrameRest
    \/ \E p \in 1..MaxMsgs : PollTick(p) /\ FrameRest
    \/ \E p \in 1..MaxMsgs : PollTimeout(p) /\ FrameRest
    \/ SubmitTimer /\ FrameRest
    \/ \E el \in Elements : Render(el) /\ FrameRest

\* the browser runs every timer callback that is due: the interval of each
\* poller, its 10 s timer and the 100 ms timer of a submission
LoginFairness ==
    /\ \A p \in 1..MaxMsgs : WF_vars(PollTick(p) /\ FrameRest)
    /\ \A p \in 1..MaxMsgs : WF_vars(PollTimeout(p) /\ FrameRest)
    /\ WF_vars(SubmitTimer /\ FrameRest)

SpecLogin == InitLogin /\ [][NextLogin]_vars /\ LoginFairness

(***************************************************************************)
(* The embedded page and its console: messages, the ready signal, the      *)
(* DOMContentLoaded listener and the web client's own console.log calls.   *)
(***************************************************************************)
NextMonitor ==
    \/ \E origin \in Origins : \E data \in Payloads :
          Message(origin, data) /\ UNCHANGED <<provVars, authVars, urlVars, genVars, pool, bridge>>
    \/ DomContentLoaded /\ UNCHANGED <<provVars, authVars, urlVars, genVars, pool, bridge>>
    \/ ReadyTimer /\ UNCHANGED <<provVars, authVars, urlVars, genVars, pool, bridge>>
    \/ \E message \in AppMessages : AppLog(message) /\ UNCHANGED <<provVars, authVars, urlVars, genVars, pool, bridge>>

SpecMonitor == InitFrame /\ [][NextMonitor]_vars

\* the browser runs the 1000 ms timer of the ready signal
MonitorFairness == WF_vars(ReadyTimer /\ FrameRest)

SpecMonitorFair == InitFrame /\ [][NextMonitor]_vars /\ MonitorFairness

(***************************************************************************)
(* The embedded page and a parent whose messages carry texts of the web    *)
(* client's log lines in their fields.                                     *)
(***************************************************************************)
EchoPayloads ==
    { DataObject("irc-login", <<"alice">>, <<"s3cr3t">>, <<"Alice">>, <<>>),
      DataObject("irc-login", <<"Connected", "to", "irc">>, <<"s3cr3t">>, <<>>, <<>>),
      DataObject("irc-theme", <<>>, <<>>, <<>>, <<"dark">>),
      DataObject("irc-theme", <<>>, <<>>, <<>>, <<"Joined", "channel">>) }

NextEcho ==
    \/ \E origin \in Origins : \E data \in EchoPayloads : Message(origin, data) /\ FrameRest
    \/ DomContentLoaded /\ FrameRest
    \/ ReadyTimer /\ FrameRest
    \/ \E message \in AppMessages : AppLog(message) /\ FrameRest

SpecEcho == InitFrame /\ [][NextEcho]_vars

(***************************************************************************)
(* The URL builders on every input of the model.                           *)
(***************************************************************************)
InitUrl ==
    /\ ProvInit
    /\ FrameLoaded(FALSE, "complete")
    /\ urlIn \in UrlInputs
    /\ urlOut = NoUrl
    /\ GenIdle
    /\ PoolInit
    /\ BridgeIdle

NextUrl ==
    \/ BuildChatUrl /\ UNCHANGED <<provVars, authVars, frameVars, genVars, pool, bridge>>
    \/ BuildLoungeUrl /\ UNCHANGED <<provVars, authVars, frameVars, genVars, pool, bridge>>

SpecUrl == InitUrl /\ [][NextUrl]_vars

(***************************************************************************)
(* The generators on every caller and every pair of draws of the model.    *)
(***************************************************************************)
InitGen ==
    /\ ProvInit
    /\ FrameLoaded(FALSE, "complete")
    /\ UrlIdle
    /\ PoolInit
    /\ BridgeIdle
    /\ genIn \in [name : DisplayNames, sub : UserIds, draw1 : RandomDraws, draw2 : RandomDraws]
    /\ genOut = NoCredentials

NextGen == Generate /\ UNCHANGED <<provVars, authVars, frameVars, urlVars, pool, bridge>>

SpecGen == InitGen /\ [][NextGen]_vars

(***************************************************************************)
(* The auth bridge page on every community of the model and every way the  *)
(* provisioning request can end.                                           *)
(***************************************************************************)
InitBridge ==
    /\ ProvInit
    /\ FrameLoaded(FALSE, "complete")
    /\ UrlIdle
    /\ GenIdle
    /\ PoolInit
    /\ \E community \in BridgeCommunities : bridge = BridgeLoaded(community, 0)

NextBridge ==
    \/ ProvisionAndRedirect /\ BridgeRest
    \/ \E outcome \in FetchOutcomes : FetchSettles(outcome) /\ BridgeRest
    \/ \E parsed \in BOOLEAN, ircUsername \in UrlUsernames, ircPassword \in UrlPasswords :
          JsonSettles(parsed, ircUsername, ircPassword) /\ BridgeRest
    \/ BridgeRetry /\ BridgeRest

SpecBridge == InitBridge /\ [][NextBridge]_vars

----------------------------------------------------------------------------
(* Properties of the provisioning endpoint *)

\* the rows of the credential store that hold an account issued to caller u
MappingsOf(u) == {row \in users : \E i \in issued : i.cg = u /\ i.username = row.username}

\* the passwords verify accepts for a username
Accepted(username) == {p \in 0..calls : Verify(users, username, p)}

\* C1: after provisioning calls for one external user, in any interleaving,
\* the store holds exactly one mapping for that user, and no username is
\* stored twice (two concurrent first calls do not both create a row).
C1_OneMappingPerUser ==
    /\ \A u \in Subs : (\E i \in issued : i.cg = u) => Cardinality(MappingsOf(u)) = 1
    /\ \A row \in users : Cardinality(SelectUser(users, row.username)) = 1

\* C2: every successful provisioning call of a user returns the username the
\* user's first call created.
C2_StableUsername ==
    \A i, j \in issued : i.cg = j.cg => i.username = j.username

\* C3: of two successive successful calls of one user, the second being the
\* latest call of all, the passwords differ, the first pair is no longer
\* accepted and the second pair is.
C3_Rotation ==
    \A a, b \in issued :
        ( /\ a.cg = b.cg
          /\ a.call < b.call
          /\ b.call = calls
          /\ Quiet
          /\ ~ \E c \in issued : c.cg = a.cg /\ a.call < c.call /\ c.call < b.call )
        => /\ a.secret # b.secret
           /\ ~Verify(users, a.username, a.secret)
           /\ Verify(users, b.username, b.secret)

Matches(rows, username, password) ==
    \E u \in rows :
        /\ u.username = username
        /\ u.password = [kind |-> "bcrypt", salt |-> u.password.salt, pw |-> password]

\* C5: every auth request is answered 200 exactly when a mapping with the
\* username exists and the hash of the password matches its stored hash.
C5_VerifyIffHashMatches ==
    [][ authCount' = authCount + 1 =>
          (auth'.status = 200 <=> Matches(users, auth'.username, auth'.password)) ]_vars

\* C5 witness: a password is accepted after the user's hash was rotated.
C5_Witness ==
    /\ auth.status = 200
    /\ auth.password > 1
    /\ \E i \in issued : i.username = auth.username /\ i.secret < auth.password

\* C6: as long as the caller has started no later provisioning call, the pair
\* a successful call returned is accepted and every other password is
\* rejected for that username.
C6_ReturnedPairAccepted ==
    \A i \in issued :
        (Quiet /\ lastCallOf[i.cg] = i.call) => Accepted(i.username) = {i.secret}

C10_DistinctUsernames ==
    \A i, j \in issued : i.cg # j.cg => i.username # j.username

\* C9: no row of the store holds a password a provisioning call generated;
\* only its hash is written, by the INSERT and by the UPDATE.
C9_NoPlaintextStored ==
    \A row \in users : \A c \in 1..calls :
        row.password # PlainPassword(generateSecurePassword(c))

----------------------------------------------------------------------------
(* Properties of the embedded page *)

\* the step is the listener handling a message of a foreign origin
ForeignMessage ==
    /\ received' = received + 1
    /\ ~(lastEvent'.origin \in allowedOrigins)

\* C7: a message whose origin is not in the allow-list is ignored whatever its
\* type and payload: handling it runs neither handleIrcLogin nor
\* handleThemeChange (nothing but the warning reaches the console), starts no
\* poller and no timer, writes no form field, submits no form and posts nothing.
C7_ForeignOriginIgnored ==
    [][ForeignMessage =>
          /\ UNCHANGED <<pollers, submitTimers, readyTimer, dom, submits, outbox, monitoring>>
          /\ \A e \in console' \ console : e.level = "warn"]_vars

\* a login message of a foreign origin was handled while the connect form was there
C7_Witness ==
    /\ received > 0
    /\ ~(lastEvent.origin \in allowedOrigins)
    /\ lastEvent.data.type = "irc-login"
    /\ lastEvent.data.password # <<>>
    /\ FormReady
    /\ pollers = <<>>
    /\ dom.nick = <<>>
    /\ submits = 0

----------------------------------------------------------------------------
(* Properties of the credential store, the auth callback and the logs *)

\* C11: a call whose derived username is already stored for another user
\* does not end with that username: every 200 response carries a username no
\* other user's call created (the derivation was retried), or the call failed.
C11_CollisionRetried ==
    \A i \in issued : \A c \in created : c.username = i.username => c.cg = i.cg

Observable(answer) == [status |-> answer.status, body |-> answer.body]

\* C13: an unknown username and a wrong password take the same path: every
\* 403 was answered after a hash verification ran, and the answer to a wrong
\* password for a stored username is, to an observer, the answer the same
\* password gets for an unknown username.
C13_SamePathForUnknownAndWrong ==
    /\ (authCount > 0 /\ auth.status = 403) => auth.compared
    /\ \A u \in users : \A p \in AuthPasswords :
          ~verifyPassword(p, u.password) =>
              Observable(AuthAnswer({u}, p)) = Observable(AuthAnswer({}, p))

\* a row without its last_used_at
Identity(u) == [id |-> u.id, username |-> u.username, password |-> u.password,
                nick |-> u.nick, realname |-> u.realname]

\* C14: an auth request that is answered 200 sets last_used_at of the one
\* matching row and of no other; one that is answered 403 leaves the table as
\* it was; and no auth request changes a username, a hash or another field.
C14_LastUsedOnSuccessOnly ==
    [][ authCount' = authCount + 1 =>
          /\ { Identity(u) : u \in users' } = { Identity(u) : u \in users }
          /\ Cardinality(users') = Cardinality(users)
          /\ auth'.status = 200 =>
                \E u \in users :
                    /\ u.username = auth'.username
                    /\ u.lastUsed # authCount'
                    /\ users' = (users \ {u}) \cup {[u EXCEPT !.lastUsed = authCount']}
          /\ auth'.status # 200 => users' = users ]_vars

\* C14 witness: a pair was accepted while the store holds a second mapping.
C14_Witness ==
    /\ auth.status = 200
    /\ Cardinality(users) > 1
    /\ \E u \in users : u.username = auth.username /\ u.lastUsed = authCount

\* the channels a reader of the URL is told to join
JoinedChannels(params) == Split(GetParam(params, <<"j","o","i","n">>), ",")

\* C15: the URL a builder returns carries the autologin and autoconnect
\* flags, and its query decodes to user = the username, al-password = the
\* password and, when there are channels, join = the channels, each as '#'
\* (%23 in the URL) followed by its name, all unchanged.
C15_RedirectUrlRoundTrip ==
    urlOut.builder # "none" =>
        LET params == ParseQuery(QueryOf(urlOut.url))
        IN  /\ HasParam(params, <<"a","u","t","o","l","o","g","i","n">>)
            /\ HasParam(params, <<"a","u","t","o","c","o","n","n","e","c","t">>)
            /\ GetParam(params, <<"u","s","e","r">>) = urlIn.username
            /\ GetParam(params, <<"a","l","-","p","a","s","s","w","o","r","d">>) = urlIn.password
            /\ urlIn.channels # <<>> =>
                  JoinedChannels(params) =
                      [i \in DOMAIN urlIn.channels |-> <<"#">> \o urlIn.channels[i]]

\* the characters of a generated username's suffix, [a-z0-9]
IsLowerAlnum(c) == c \in Range(LowerChars) \cup Range(DigitChars)

\* C16: the generated username is the lower-cased alphanumeric characters of
\* the display name, then '_' or '-', then a non-empty suffix of characters in
\* [a-z0-9]; the generated password has at least 16 characters.
C16_UsernamePatternAndSecretLength ==
    genOut.done =>
        LET clean == ToLowerCase(StripNonAlnum(genIn.name))
            n == Len(clean)
            username == genOut.username
        IN  /\ Len(username) > n + 1
            /\ SubSeq(username, 1, n) = clean
            /\ username[n + 1] \in {"_", "-"}
            /\ \A i \in (n + 2)..Len(username) : IsLowerAlnum(username[i])
            /\ Len(genOut.password) >= 16

\* a console entry shows the password: in its text or in an object it logs
ShowsPassword(entry, password) ==
    \/ entry.obj.type = "irc-login" /\ entry.obj.password = password
    \/ \E i \in DOMAIN entry.text : entry.text[i] \in Range(password)

\* C17: nothing that reaches the console contains a password received in an
\* irc-login message.
C17_NoSecretInLogs ==
    \A entry \in console : \A data \in Payloads :
        (data.type = "irc-login" /\ data.password # <<>>) =>
            ~ShowsPassword(entry, data.password)

\* C18: a provisioning call in which a query raised an error has answered 500
\* without credentials and is at no further query; the step in which the
\* error is raised changes neither table and issues nothing.
C18_PersistenceErrorSurfaced ==
    /\ [](\A r \in Reqs : req[r].dbError =>
            /\ req[r].pc = "done"
            /\ req[r].status = 500
            /\ req[r].ircUsername = <<>>
            /\ req[r].ircPassword = 0
            /\ ~ \E i \in issued : i.call = req[r].call)
    /\ [][ \A r \in Reqs :
            (~req[r].dbError /\ req'[r].dbError) =>
                /\ users' = users
                /\ networks' = networks
                /\ issued' = issued ]_vars

\* C18 witness: a call failed at the Network query, after its INSERT went
\* through, while another call is in flight.
C18_Witness ==
    \E r, q \in Reqs :
        /\ req[r].dbError
        /\ \E c \in created : c.cg = req[r].user
        /\ networks = {}
        /\ InFlight(q)

\* the 'commonground' network records of the account with this username
NetworksOf(username) ==
    { n \in networks : n.name = NetworkName /\ \E row \in users : row.username = username /\ n.user = row.id }

C20_CallsComplete ==
    \A r \in SeqReqs : InFlight(r) ~> Free(r)

----------------------------------------------------------------------------
(* Properties of the login poller, the events and the auth bridge page *)

\* the step writes a field of the connect form or arms a submission
FillsOrArms ==
    \/ dom'.nick # dom.nick
    \/ dom'.password # dom.password
    \/ dom'.realname # dom.realname
    \/ submitTimers' > submitTimers

\* the step is an interval callback of poller p
TickOf(p) ==
    /\ p \in 1..Len(pollers)
    /\ Len(pollers') = Len(pollers)
    /\ pollers'[p].ticks = pollers[p].ticks + 1

EventTypes == { "ready", "connected", "disconnected", "joined", "error" }

\* the event type the markers of a logged text stand for, "" when it has none
MarkerOf(message) ==
    IF Includes(message, <<"Connected", "to">>) THEN "connected"
    ELSE IF Includes(message, <<"Disconnected", "from">>) THEN "disconnected"
    ELSE IF Includes(message, <<"Joined", "channel">>) THEN "joined"
    ELSE ""

ReadyEvents == { i \in 1..Len(outbox) : outbox[i].eventType = "ready" }

\* C22: in an iframe every posted message is an irc-event of a known event
\* type; the ready event is posted once, when its timer fires, and it does
\* fire; a console.log call of the web client posts at most one event, and an
\* event posted for a logged text has the type of the first marker the text
\* matches in the order 'Connected to', 'Disconnected from', 'Joined channel'.
C22_EventsWellFormed ==
    /\ [](\A i \in 1..Len(outbox) :
            /\ outbox[i].type = "irc-event"
            /\ outbox[i].eventType \in EventTypes
            /\ outbox[i].eventType # "ready" => outbox[i].eventType = MarkerOf(outbox[i].message))
    /\ [](embedded => Cardinality(ReadyEvents) = IF readyTimer THEN 0 ELSE 1)
    /\ [][appLogs' # appLogs =>
            \/ outbox' = outbox
            \/ \E e \in [type : {"irc-event"}, eventType : EventTypes \ {"ready"}, message : AppMessages] :
                  outbox' = Append(outbox, e)]_vars
    /\ (embedded => <>(Cardinality(ReadyEvents) = 1))

\* the web client logged a text with two markers after monitoring was
\* installed, and the ready signal was sent
C22_Witness ==
    /\ embedded
    /\ ~readyTimer
    /\ \E i \in 1..Len(outbox) :
          /\ outbox[i].message = <<"Joined", "channel", "Connected", "to">>
          /\ outbox[i].eventType = "connected"
    /\ \E i \in 1..Len(outbox) : outbox[i].eventType = "ready"

\* poller p was stopped by its 10 s timer
TimedOut(p) == ~pollers[p].timer

\* C23: every poller stops: its interval is cleared by the callback that finds
\* the form or by its 10 s timer, eventually no interval and no 10 s timer is
\* left, a poller whose 10 s timer fired never runs again, and a field is
\* written or a submission armed only by a poller whose 10 s timer has not
\* fired.
C23_PollingStops ==
    /\ [](\A p \in 1..Len(pollers) : TimedOut(p) => ~pollers[p].active)
    /\ [][\A p \in 1..Len(pollers) : TimedOut(p) => pollers'[p] = pollers[p]]_vars
    /\ [][FillsOrArms => \E p \in 1..Len(pollers) : TickOf(p) /\ ~TimedOut(p)]_vars
    /\ <>[](\A p \in 1..Len(pollers) : ~pollers[p].active /\ TimedOut(p))

\* a poller timed out before the form appeared; the form is there now, empty
\* and not submitted
C23_Witness ==
    /\ Len(pollers) = 1
    /\ TimedOut(1)
    /\ pollers[1].data.nick = <<"alice">>
    /\ { "nick", "password", "connect" } \subseteq dom.present
    /\ dom.nick = <<>>
    /\ dom.password = <<>>
    /\ submits = 0
    /\ submitTimers = 0

\* C24: in a top-level page the script is inert: it handles no message, does
\* not wrap console.log, has no timer pending, fills and submits nothing and
\* posts nothing; and the integration loader injects the script in a window
\* exactly when the window is not its own parent.
C24_InertWhenTopLevel ==
    /\ ~embedded =>
          /\ received = 0
          /\ ~monitoring
          /\ ~readyTimer
          /\ pollers = <<>>
          /\ submitTimers = 0
          /\ submits = 0
          /\ outbox = <<>>
          /\ \A e \in console : e.text \in AppMessages
    /\ \A w \in Windows : LoaderInjects(w) <=> WindowParent(w) # w

\* a top-level page was parsed to its end and the web client logged a
\* connection marker
C24_Witness ==
    /\ ~embedded
    /\ readyState = "interactive"
    /\ appLogs > 0
    /\ \E e \in console : e.text = <<"Connected", "to", "irc">>

\* the step is a reload of the bridge page
Reloads == bridge'.loads # bridge.loads

C27_OtherUsersUntouched ==
    \A i \in issued :
        lastCallOf[i.cg] = i.call => Verify(users, i.username, i.secret)

\* C28: a call that ends with an error leaves nothing in the store: once no
\* call is in flight, every account was last written by a call that answered
\* 200, and the pair that call returned is accepted by verify.
C28_ErrorLeavesStore ==
    Quiet =>
        \A row \in users :
            \E i \in issued :
                /\ i.username = row.username
                /\ row.username \in DOMAIN lastWrite
                /\ i.call = lastWrite[row.username]
                /\ Verify(users, i.username, i.secret)

\* the step is the listener accepting a login or a theme message
AcceptsLoginOrTheme ==
    /\ received' = received + 1
    /\ lastEvent'.origin \in allowedOrigins
    /\ lastEvent'.data.kind = "object"
    /\ lastEvent'.data.type \in { "irc-login", "irc-theme" }

\* C29: accepting a login or a theme message posts nothing to the parent,
\* whatever the values of its fields.
C29_MessagesPostNothing ==
    [][AcceptsLoginOrTheme => outbox' = outbox]_vars

\* the step is the listener accepting a login message
AcceptsLogin ==
    /\ received' = received + 1
    /\ lastEvent'.origin \in allowedOrigins
    /\ lastEvent'.data.kind = "object"
    /\ lastEvent'.data.type = "irc-login"

\* C30: the submissions made and armed never exceed the login messages
\* accepted; an accepted login message starts one poller of its own and
\* leaves the others alone, no other message starts one, and a callback of
\* one poller leaves the others alone; handling a message, a theme message
\* included, writes no field and submits nothing; a field that changes takes
\* the non-empty value of the same field of the message of the poller that
\* ran.
C30_SubmissionsBoundedByLogins ==
    /\ [](submits + submitTimers <= Len(pollers))
    /\ [][AcceptsLogin =>
            /\ Len(pollers') = Len(pollers) + 1
            /\ pollers'[Len(pollers')].data = lastEvent'.data
            /\ pollers'[Len(pollers')].active
            /\ \A p \in 1..Len(pollers) : pollers'[p] = pollers[p]]_vars
    /\ [][received' # received /\ ~AcceptsLogin => pollers' = pollers]_vars
    /\ [][received' # received =>
            dom' = dom /\ submits' = submits /\ submitTimers' = submitTimers]_vars
    /\ [][\A p \in 1..Len(pollers) :
            TickOf(p) => \A q \in 1..Len(pollers) : q # p => pollers'[q] = pollers[q]]_vars
    /\ [][\A f \in { "nick", "password", "realname" } :
            dom'[f] # dom[f] =>
                \E p \in 1..Len(pollers) :
                    /\ TickOf(p)
                    /\ pollers[p].data[f] # <<>>
                    /\ dom'[f] = pollers[p].data[f]]_vars

\* two login messages were accepted, the second with empty fields; both
\* pollers found the form, both submissions were made, and the form holds the
\* values of the first message
C30_Witness ==
    /\ Len(pollers) = 2
    /\ pollers[1].data.nick = <<"alice">>
    /\ pollers[2].data.nick = <<>>
    /\ pollers[2].data.type = "irc-login"
    /\ \A p \in 1..2 : ~pollers[p].active /\ pollers[p].timer
    /\ submits = 2
    /\ dom.nick = <<"alice">>
    /\ dom.password = <<"s3cr3t">>

====
